---- MODULE Spec2Model ----
(***************************************************************************)
(* Signalling relay and presence registry of Nexus Voice: the Socket.IO    *)
(* server of src/unnamed/part_001 (registerSockets).                       *)
(*                                                                         *)
(* Node runs every handler to completion on one thread and no handler of   *)
(* registerSockets awaits anything, so each handler is one atomic action.  *)
(* The interleavings of the model are the orders in which the server       *)
(* processes the events of the different connections.                      *)
(***************************************************************************)
EXTENDS Naturals, Integers, Sequences, FiniteSets, TLC

(* Number of connections the server sees in one run. socket.id is unique   *)
(* per connection, so a socket id is used for one connection only and a    *)
(* reconnect is a new socket id.                                           *)
MaxSockets == 2

(* Number of signals the clients send in one run of the relay.             *)
MaxSignals == 2

Sockets == 1..MaxSockets

(* Display names clients ask for (the lobby offers a fixed list).          *)
Names == {"Ali", "Azzo"}

(* The value of a field the payload does not carry (JavaScript undefined). *)
Undefined == "undefined"

(* What a join payload's name field can be.                                *)
JoinArgs == Names \cup {Undefined}

(* Payloads of mute. The room client sends {muted}; a client is free to    *)
(* add a peerId of its choosing.                                           *)
MutePayloads ==
  {[muted |-> m, peerId |-> <<"uuid", c>>] : m \in BOOLEAN, c \in Sockets}

(* Payloads of signal: an offer, an answer, a candidate, another object.   *)
SignalData ==
  { [type |-> "offer", sdp |-> "v=0 offer"],
    [type |-> "answer", sdp |-> "v=0 answer"],
    [candidate |-> "candidate:1 1 udp"],
    [foo |-> "bar"] }

VARIABLES
  status,           \* socket id -> "new" (not yet connected), "open", "closed"
  clients,          \* Map socket.id -> {peerId, name}, in insertion order
  peerToSocket,     \* Map peerId -> socket.id
  presenceWatchers, \* Set of sockets subscribed to presence
  emitted,          \* the messages the last handler emitted, in order
  last,             \* the event the last handler processed
  accepted,         \* open sockets that have received peer-list (history)
  refused,          \* open sockets refused and not accepted since (history)
  inflight,         \* joins sent concurrently and not all processed yet
  seen,             \* per socket, what its client has been sent (history)
  relay,            \* signals on their way to the server, and as delivered
  scenario,         \* how far the events so far follow the membership scenario
  pages             \* the browser tabs: page, socket, stored name; their sends

vars == <<status, clients, peerToSocket, presenceWatchers, emitted, last,
          accepted, refused, inflight, seen, relay, scenario, pages>>

(* uuidv4(): a fresh identity per connection, never equal to a socket id.  *)
Uuid(s) == <<"uuid", s>>

PeerIds == {Uuid(s) : s \in Sockets}

ICE_SERVERS == <<[urls |-> "stun:stun.l.google.com:19302"]>>

ICE_POLICY == "all"

(* The text of join-error (Arabic in the source: the name is in use).      *)
JOIN_ERROR_MESSAGE == "name already in use"

Open == {s \in Sockets : status[s] = "open"}

RECURSIVE SetToSeq(_)
SetToSeq(S) ==
  IF S = {} THEN <<>>
  ELSE LET m == CHOOSE x \in S : \A y \in S : x <= y
       IN <<m>> \o SetToSeq(S \ {m})

Msg(to, ev, data) == [to |-> to, ev |-> ev, data |-> data]

(* The positions of the messages ev to socket t in out.                    *)
Sent(out, t, ev) == {k \in 1..Len(out) : out[k].to = t /\ out[k].ev = ev}

SentAny(out, ev) == {k \in 1..Len(out) : out[k].ev = ev}

(* socket.emit(ev, data)                                                   *)
Emit(s, ev, data) == <<Msg(s, ev, data)>>

BroadcastToSelf(s, ev, data) == <<Msg(s, ev, data)>>

BroadcastToAll(s, ev, data) ==
  LET to == SetToSeq(Open \cup {s})
  IN [i \in 1..Len(to) |-> Msg(to[i], ev, data)]

(* socket.broadcast.emit(ev, data): every connected socket of the          *)
(* namespace except the sender, joined or not.                             *)
Broadcast(s, ev, data) ==
  LET to == SetToSeq(Open \ {s})
  IN [i \in 1..Len(to) |-> Msg(to[i], ev, data)]

EmitToTwice(sid, ev, data) ==
  IF sid \in Open THEN <<Msg(sid, ev, data), Msg(sid, ev, data)>> ELSE <<>>

EmitToEveryone(sid, ev, data) ==
  LET to == SetToSeq(Open)
  IN [i \in 1..Len(to) |-> Msg(to[i], ev, data)]

(* io.to(socketId).emit(ev, data): the room of a socket id holds that      *)
(* socket while it is connected.                                           *)
EmitTo(sid, ev, data) ==
  IF sid \in Open THEN <<Msg(sid, ev, data)>> ELSE <<>>

(* io.emit(ev, data): every connected socket of the namespace.             *)
IoEmit(ev, data) ==
  LET to == SetToSeq(Open)
  IN [i \in 1..Len(to) |-> Msg(to[i], ev, data)]

(* for (const watcher of ws) watcher.emit(ev, data)                        *)
EmitToEach(ws, ev, data) ==
  LET to == SetToSeq(ws)
  IN [i \in 1..Len(to) |-> Msg(to[i], ev, data)]

----------------------------------------------------------------------------
(* The Map clients, kept as the sequence of its entries in insertion order *)

ClientsHas(cl, sid) == \E i \in 1..Len(cl) : cl[i].sid = sid

ClientsGet(cl, sid) ==
  LET i == CHOOSE j \in 1..Len(cl) : cl[j].sid = sid
  IN [peerId |-> cl[i].peerId, name |-> cl[i].name]

ClientsSetAppend(cl, sid, peerId, name) ==
  Append(cl, [sid |-> sid, peerId |-> peerId, name |-> name])

(* Map.set: an existing key keeps its place, a new key goes last.          *)
ClientsSet(cl, sid, peerId, name) ==
  LET e == [sid |-> sid, peerId |-> peerId, name |-> name]
  IN IF ClientsHas(cl, sid)
     THEN [i \in 1..Len(cl) |-> IF cl[i].sid = sid THEN e ELSE cl[i]]
     ELSE Append(cl, e)

ClientsKeep(cl, sid) == cl

ClientsDelete(cl, sid) ==
  LET keep(e) == e.sid # sid
  IN SelectSeq(cl, keep)

ActiveNamesWithoutLast(cl) == [i \in 1..(Len(cl) - 1) |-> cl[i].name]

(* Array.from(clients.values()).map((c) => c.name)                         *)
ActiveNames(cl) == [i \in 1..Len(cl) |-> cl[i].name]

PeerListWithoutLast(cl) ==
  [i \in 1..(Len(cl) - 1) |-> [peerId |-> cl[i].peerId, name |-> cl[i].name]]

PeerListWithMuted(cl) ==
  [i \in 1..Len(cl) |->
     [peerId |-> cl[i].peerId, name |-> cl[i].name, muted |-> FALSE]]

(* Array.from(clients.values()).map((c) => ({peerId, name}))               *)
PeerList(cl) ==
  [i \in 1..Len(cl) |-> [peerId |-> cl[i].peerId, name |-> cl[i].name]]

NameNeverTaken(cl, name) == FALSE

NameAlwaysTaken(cl, name) == TRUE

(* Array.from(clients.values()).some((c) => c.name === name)               *)
NameTaken(cl, name) == \E i \in 1..Len(cl) : cl[i].name = name

----------------------------------------------------------------------------
(* The Map peerToSocket                                                    *)

PeerToSocketSet(m, p, sid) ==
  [q \in (DOMAIN m) \cup {p} |-> IF q = p THEN sid ELSE m[q]]

PeerToSocketKeep(m, p) == m

PeerToSocketDelete(m, p) == [q \in (DOMAIN m) \ {p} |-> m[q]]

----------------------------------------------------------------------------
NoRace == [name |-> Undefined, sent |-> {}, waiting |-> {}, won |-> {}, lost |-> {}]

Event(ev, s, arg) == [ev |-> ev, sid |-> s, arg |-> arg]

NoArg == [none |-> TRUE]

(* No signal sent yet: wire[s] is the ordered channel from the client of s *)
(* to the server, delivered[s] the signals emitted to s, in order.         *)
NoSignals ==
  [sent |-> 0, wire |-> [s \in Sockets |-> <<>>],
   delivered |-> [s \in Sockets |-> <<>>]]

(* The browser tabs that run the client.                                   *)
Tabs == {"X", "Y"}

(* A tab that has just loaded the lobby: its socket is not connected yet   *)
(* (0), no name is stored, no entry of the name list is marked online.     *)
FreshLobby == [page |-> "lobby", sock |-> 0, name |-> Undefined, online |-> {}]

(* Every tab on a fresh lobby; wire[s] are the events the client of socket *)
(* s has emitted and the server has not handled yet, in order; offers are  *)
(* the pairs <<from, to>> of identities such that the room client that was *)
(* welcomed as from has emitted an offer for to.                           *)
NoPages ==
  [tabs |-> [t \in Tabs |-> FreshLobby], wire |-> [s \in Sockets |-> <<>>],
   offers |-> {}]

(* The presence payload of a socket that is sent none.                     *)
NoPresence == <<"(none)">>

(* The identity of a socket that has been sent no welcome.                 *)
NoIdentity == <<"none", 0>>

(* The peer list of a client that has been sent no peer-list.              *)
NotListed == {NoIdentity}

(* A socket the server has sent nothing: no identity, no first message.    *)
NothingSeen ==
  [identity |-> NoIdentity, first |-> "none", welcomes |-> 0, sub |-> FALSE,
   presence |-> NoPresence, roster |-> NotListed]

Init ==
  /\ status = [s \in Sockets |-> "new"]
  /\ clients = <<>>
  /\ peerToSocket = <<>>
  /\ presenceWatchers = {}
  /\ emitted = <<>>
  /\ last = Event("start", 0, NoArg)
  /\ accepted = {}
  /\ refused = {}
  /\ inflight = NoRace
  /\ seen = [s \in Sockets |-> NothingSeen]
  /\ relay = NoSignals
  /\ scenario = "start"
  /\ pages = NoPages

(* What the clients observe of a handler: who got peer-list, join-error.   *)
Observe(out) ==
  /\ accepted' = accepted \cup
       {out[i].to : i \in {j \in 1..Len(out) : out[j].ev = "peer-list"}}
  /\ refused' = (refused \cup
       {out[i].to : i \in {j \in 1..Len(out) : out[j].ev = "join-error"}})
         \ accepted'

ConnectionNoWelcome(s) ==
  /\ status[s] = "new"
  /\ status' = [status EXCEPT ![s] = "open"]
  /\ emitted' = <<>>
  /\ last' = Event("connection", s,
                   [afterMute |-> (last.ev = "mute" /\ last.arg.muted)])
  /\ UNCHANGED <<clients, peerToSocket, presenceWatchers, accepted,
                 refused>>

(* io.on('connection'): issue the identity and send welcome.               *)
Connection(s) ==
  /\ status[s] = "new"
  /\ status' = [status EXCEPT ![s] = "open"]
  /\ emitted' = Emit(s, "welcome",
                     [peerId |-> Uuid(s), iceServers |-> ICE_SERVERS,
                      icePolicy |-> ICE_POLICY])
  /\ last' = Event("connection", s,
                   [afterMute |-> (last.ev = "mute" /\ last.arg.muted)])
  /\ UNCHANGED <<clients, peerToSocket, presenceWatchers, accepted,
                 refused>>

SubscribePresence(s) ==
  /\ status[s] = "open"
  /\ presenceWatchers' = presenceWatchers \cup {s}
  /\ emitted' = Emit(s, "presence", ActiveNames(clients))
  /\ last' = Event("subscribe-presence", s, NoArg)
  /\ UNCHANGED <<status, clients, peerToSocket, accepted, refused>>

UnsubscribeNoop(s) ==
  /\ status[s] = "open"
  /\ emitted' = <<>>
  /\ last' = Event("unsubscribe-presence", s, NoArg)
  /\ UNCHANGED <<status, clients, peerToSocket, presenceWatchers, accepted,
                 refused>>

UnsubscribePresence(s) ==
  /\ status[s] = "open"
  /\ presenceWatchers' = presenceWatchers \ {s}
  /\ emitted' = <<>>
  /\ last' = Event("unsubscribe-presence", s, NoArg)
  /\ UNCHANGED <<status, clients, peerToSocket, accepted, refused>>

JoinRejectedFallThrough(s, name) ==
  /\ clients' = ClientsSet(clients, s, Uuid(s), name)
  /\ peerToSocket' = PeerToSocketSet(peerToSocket, Uuid(s), s)
  /\ emitted' = Emit(s, "join-error", [message |-> JOIN_ERROR_MESSAGE])
                \o Emit(s, "peer-list", PeerList(clients'))
                \o Broadcast(s, "peer-joined", [peerId |-> Uuid(s), name |-> name])
                \o EmitToEach(presenceWatchers, "presence", ActiveNames(clients'))

(* join, name taken: join-error to the requester and return.               *)
JoinRejected(s, name) ==
  /\ emitted' = Emit(s, "join-error", [message |-> JOIN_ERROR_MESSAGE])
  /\ UNCHANGED <<clients, peerToSocket>>

(* join, name free: both maps, peer-list, peer-joined, presence.           *)
JoinAccepted(s, name) ==
  /\ clients' = ClientsSet(clients, s, Uuid(s), name)
  /\ peerToSocket' = PeerToSocketSet(peerToSocket, Uuid(s), s)
  /\ emitted' = Emit(s, "peer-list", PeerList(clients'))
                \o Broadcast(s, "peer-joined", [peerId |-> Uuid(s), name |-> name])
                \o EmitToEach(presenceWatchers, "presence", ActiveNames(clients'))

JoinHandlerSparingOwnEntry(s, name) ==
  /\ status[s] = "open"
  /\ IF \E i \in 1..Len(clients) : clients[i].name = name /\ clients[i].sid # s
     THEN JoinRejected(s, name)
     ELSE JoinAccepted(s, name)
  /\ last' = Event("join", s,
                   [name |-> name, rejoin |-> ClientsHas(clients, s),
                    retry |-> s \in refused,
                    freed |-> (last.ev = "disconnect" /\ last.arg.name = name)])
  /\ Observe(emitted')
  /\ UNCHANGED <<status, presenceWatchers>>

(* socket.on('join', ({ name }) => ...)                                    *)
JoinHandler(s, name) ==
  /\ status[s] = "open"
  /\ IF NameTaken(clients, name)
     THEN JoinRejected(s, name)
     ELSE JoinAccepted(s, name)
  /\ last' = Event("join", s,
                   [name |-> name, rejoin |-> ClientsHas(clients, s),
                    retry |-> s \in refused,
                    freed |-> (last.ev = "disconnect" /\ last.arg.name = name)])
  /\ Observe(emitted')
  /\ UNCHANGED <<status, presenceWatchers>>

MuteNoticeTrusting(s, payload) ==
  [peerId |-> payload.peerId, muted |-> payload.muted]

(* { peerId, muted }: peerId is the closure variable, muted the payload's. *)
MuteNotice(s, payload) == [peerId |-> Uuid(s), muted |-> payload.muted]

MuteHandlerStoringMuted(s, payload) ==
  /\ status[s] = "open"
  /\ emitted' = Broadcast(s, "mute", MuteNotice(s, payload))
  /\ last' = Event("mute", s, payload)
  /\ clients' = [i \in 1..Len(clients) |->
                   IF clients[i].sid = s
                   THEN [sid |-> s, peerId |-> clients[i].peerId,
                         name |-> clients[i].name, muted |-> payload.muted]
                   ELSE clients[i]]
  /\ UNCHANGED <<status, peerToSocket, presenceWatchers, accepted, refused>>

MuteHandlerWithAck(s, payload) ==
  /\ status[s] = "open"
  /\ emitted' = Broadcast(s, "mute", MuteNotice(s, payload))
                \o Emit(s, "mute-ack", [muted |-> payload.muted])
  /\ last' = Event("mute", s, payload)
  /\ UNCHANGED <<status, clients, peerToSocket, presenceWatchers, accepted,
                 refused>>

(* socket.on('mute', ({ muted }) => ...)                                   *)
MuteHandler(s, payload) ==
  /\ status[s] = "open"
  /\ emitted' = Broadcast(s, "mute", MuteNotice(s, payload))
  /\ last' = Event("mute", s, payload)
  /\ UNCHANGED <<status, clients, peerToSocket, presenceWatchers, accepted,
                 refused>>

SignalHandlerNack(s, targetPeerId, data) ==
  /\ status[s] = "open"
  /\ emitted' = IF targetPeerId \in DOMAIN peerToSocket
                THEN EmitTo(peerToSocket[targetPeerId], "signal",
                            [from |-> Uuid(s), data |-> data])
                ELSE Emit(s, "signal-error", [targetPeerId |-> targetPeerId])
  /\ last' = Event("signal", s, [targetPeerId |-> targetPeerId, data |-> data])
  /\ UNCHANGED <<status, clients, peerToSocket, presenceWatchers, accepted,
                 refused>>

SignalHandlerTyped(s, targetPeerId, data) ==
  /\ status[s] = "open"
  /\ emitted' = IF /\ targetPeerId \in DOMAIN peerToSocket
                   /\ DOMAIN data \cap {"type", "candidate"} # {}
                THEN EmitTo(peerToSocket[targetPeerId], "signal",
                            [from |-> Uuid(s), data |-> data])
                ELSE <<>>
  /\ last' = Event("signal", s, [targetPeerId |-> targetPeerId, data |-> data])
  /\ UNCHANGED <<status, clients, peerToSocket, presenceWatchers, accepted,
                 refused>>

SignalHandlerCheckingSender(s, targetPeerId, data) ==
  /\ status[s] = "open"
  /\ emitted' = IF /\ targetPeerId \in DOMAIN peerToSocket
                   /\ ClientsHas(clients, s)
                   /\ targetPeerId # Uuid(s)
                THEN EmitTo(peerToSocket[targetPeerId], "signal",
                            [from |-> Uuid(s), data |-> data])
                ELSE <<>>
  /\ last' = Event("signal", s, [targetPeerId |-> targetPeerId, data |-> data])
  /\ UNCHANGED <<status, clients, peerToSocket, presenceWatchers, accepted,
                 refused>>

(* socket.on('signal', ({ targetPeerId, data }) => ...)                    *)
SignalHandler(s, targetPeerId, data) ==
  /\ status[s] = "open"
  /\ emitted' = IF targetPeerId \in DOMAIN peerToSocket
                THEN EmitTo(peerToSocket[targetPeerId], "signal",
                            [from |-> Uuid(s), data |-> data])
                ELSE <<>>
  /\ last' = Event("signal", s, [targetPeerId |-> targetPeerId, data |-> data])
  /\ UNCHANGED <<status, clients, peerToSocket, presenceWatchers, accepted,
                 refused>>

DisconnectHandlerNoNotice(s) ==
  /\ status[s] = "open"
  /\ status' = [status EXCEPT ![s] = "closed"]
  /\ IF ClientsHas(clients, s)
     THEN /\ clients' = ClientsDelete(clients, s)
          /\ peerToSocket' = PeerToSocketDelete(peerToSocket, Uuid(s))
          /\ emitted' = EmitToEach(presenceWatchers, "presence",
                                   ActiveNames(clients'))
     ELSE /\ emitted' = <<>>
          /\ UNCHANGED <<clients, peerToSocket>>
  /\ presenceWatchers' = presenceWatchers \ {s}
  /\ last' = Event("disconnect", s,
                   [name |-> IF ClientsHas(clients, s)
                             THEN ClientsGet(clients, s).name ELSE Undefined,
                    joined |-> ClientsHas(clients, s)])
  /\ accepted' = accepted \ {s}
  /\ refused' = refused \ {s}

DisconnectHandlerUnguarded(s) ==
  /\ status[s] = "open"
  /\ status' = [status EXCEPT ![s] = "closed"]
  /\ clients' = ClientsDelete(clients, s)
  /\ peerToSocket' = PeerToSocketDelete(peerToSocket, Uuid(s))
  /\ emitted' = Broadcast(s, "peer-left", [peerId |-> Uuid(s)])
                \o EmitToEach(presenceWatchers, "presence", ActiveNames(clients'))
  /\ presenceWatchers' = presenceWatchers \ {s}
  /\ last' = Event("disconnect", s,
                   [name |-> IF ClientsHas(clients, s)
                             THEN ClientsGet(clients, s).name ELSE Undefined,
                    joined |-> ClientsHas(clients, s)])
  /\ accepted' = accepted \ {s}
  /\ refused' = refused \ {s}

DisconnectHandlerLeavingOpen(s) ==
  /\ status[s] = "open"
  /\ UNCHANGED status
  /\ IF ClientsHas(clients, s)
     THEN LET clientInfo == ClientsGet(clients, s)
          IN /\ clients' = ClientsDelete(clients, s)
             /\ peerToSocket' = PeerToSocketDelete(peerToSocket, clientInfo.peerId)
             /\ emitted' = Broadcast(s, "peer-left",
                                     [peerId |-> clientInfo.peerId])
                           \o EmitToEach(presenceWatchers, "presence",
                                         ActiveNames(clients'))
     ELSE /\ emitted' = <<>>
          /\ UNCHANGED <<clients, peerToSocket>>
  /\ presenceWatchers' = presenceWatchers \ {s}
  /\ last' = Event("disconnect", s,
                   [name |-> IF ClientsHas(clients, s)
                             THEN ClientsGet(clients, s).name ELSE Undefined,
                    joined |-> ClientsHas(clients, s)])
  /\ accepted' = accepted \ {s}
  /\ refused' = refused \ {s}

(* socket.on('disconnect', () => ...). The socket has left the namespace   *)
(* when the handler runs; presenceWatchers still holds it during the loop. *)
DisconnectHandler(s) ==
  /\ status[s] = "open"
  /\ status' = [status EXCEPT ![s] = "closed"]
  /\ IF ClientsHas(clients, s)
     THEN LET clientInfo == ClientsGet(clients, s)
          IN /\ clients' = ClientsDelete(clients, s)
             /\ peerToSocket' = PeerToSocketDelete(peerToSocket, clientInfo.peerId)
             /\ emitted' = Broadcast(s, "peer-left",
                                     [peerId |-> clientInfo.peerId])
                           \o EmitToEach(presenceWatchers, "presence",
                                         ActiveNames(clients'))
     ELSE /\ emitted' = <<>>
          /\ UNCHANGED <<clients, peerToSocket>>
  /\ presenceWatchers' = presenceWatchers \ {s}
  /\ last' = Event("disconnect", s,
                   [name |-> IF ClientsHas(clients, s)
                             THEN ClientsGet(clients, s).name ELSE Undefined,
                    joined |-> ClientsHas(clients, s)])
  /\ accepted' = accepted \ {s}
  /\ refused' = refused \ {s}

----------------------------------------------------------------------------
(* What each client has been sent so far, kept from the emits of the       *)
(* handler that just ran: the identity its welcome carried, the first      *)
(* event it was sent, how many welcomes (counted to two), whether its      *)
(* latest subscription message was subscribe-presence, and the latest      *)
(* presence payload it was sent since then.                                *)
RECURSIVE PeerListOf(_, _, _)
(* The identities in the peer list of the room client of s after the       *)
(* messages of out, from its peer-list on: peer-list replaces the list,    *)
(* peer-joined adds an entry unless there, peer-left removes it.           *)
PeerListOf(view, out, s) ==
  IF out = <<>> THEN view
  ELSE LET m == Head(out)
           next ==
             IF m.to # s THEN view
             ELSE IF m.ev = "peer-list"
                  THEN {m.data[i].peerId : i \in 1..Len(m.data)}
             ELSE IF view = NotListed THEN view
             ELSE IF m.ev = "peer-joined" THEN view \cup {m.data.peerId}
             ELSE IF m.ev = "peer-left" THEN view \ {m.data.peerId}
             ELSE view
       IN PeerListOf(next, Tail(out), s)

TrackOne(s, was, out, ev) ==
  LET K == {k \in 1..Len(out) : out[k].to = s}
      W == {k \in K : out[k].ev = "welcome"}
      P == {k \in K : out[k].ev = "presence"}
      firstK == CHOOSE k \in K : \A j \in K : k <= j
      lastP == CHOOSE k \in P : \A j \in P : j <= k
      sub == IF ev.sid = s /\ ev.ev = "subscribe-presence" THEN TRUE
             ELSE IF ev.sid = s /\ ev.ev \in {"unsubscribe-presence", "disconnect"}
                  THEN FALSE
                  ELSE was.sub
  IN IF ev.sid # s /\ \A k \in 1..Len(out) : out[k].to # s
     THEN was
     ELSE [identity |-> IF W # {} THEN out[CHOOSE k \in W : TRUE].data.peerId
                        ELSE was.identity,
           first |-> IF was.first = "none" /\ K # {} THEN out[firstK].ev
                     ELSE was.first,
           welcomes |-> IF was.welcomes + Cardinality(W) >= 2 THEN 2
                        ELSE was.welcomes + Cardinality(W),
           sub |-> sub,
           presence |-> IF ~sub THEN NoPresence
                        ELSE IF P # {} THEN out[lastP].data ELSE was.presence,
           roster |-> IF ev.sid = s /\ ev.ev = "disconnect" THEN NotListed
                      ELSE PeerListOf(was.roster, out, s)]

(* The membership scenario: A (socket 1) joins as Ali, B (socket 2) asks   *)
(* for Ali, B joins as Azzo, A disconnects; A and B connect at any time    *)
(* before their first message. Any other event leaves the scenario.        *)
ScenarioStep(stage, ev) ==
  IF stage = "off" THEN "off"
  ELSE IF ev.ev = "connection" /\ ev.sid \in {1, 2} THEN stage
  ELSE IF stage = "start" /\ ev.ev = "join" /\ ev.sid = 1
          /\ ev.arg.name = "Ali" THEN "A joined"
  ELSE IF stage = "A joined" /\ ev.ev = "join" /\ ev.sid = 2
          /\ ev.arg.name = "Ali" THEN "B refused"
  ELSE IF stage = "B refused" /\ ev.ev = "join" /\ ev.sid = 2
          /\ ev.arg.name = "Azzo" THEN "B joined"
  ELSE IF stage = "B joined" /\ ev.ev = "disconnect" /\ ev.sid = 1
       THEN "A left"
  ELSE "off"

(* The history changes only on a subscription or disconnect event, with a  *)
(* welcome, presence or peer list message among the emits, or with a first *)
(* message to a socket.                                                    *)
Track ==
  /\ IF /\ last'.ev \notin {"subscribe-presence", "unsubscribe-presence",
                            "disconnect"}
        /\ \A k \in 1..Len(emitted') :
             /\ emitted'[k].ev \notin {"welcome", "presence", "peer-list",
                                       "peer-joined", "peer-left"}
             /\ seen[emitted'[k].to].first # "none"
     THEN seen' = seen
     ELSE seen' = [s \in Sockets |-> TrackOne(s, seen[s], emitted', last')]
  /\ scenario' = ScenarioStep(scenario, last')

----------------------------------------------------------------------------
(* Events the server processes one at a time, no joins racing.             *)

Quiet == inflight.waiting = {}

Connect ==
  \E s \in Sockets : Quiet /\ Connection(s) /\ inflight' = NoRace /\ Track
    /\ UNCHANGED <<relay, pages>>

Subscribe ==
  \E s \in Sockets :
    Quiet /\ SubscribePresence(s) /\ inflight' = NoRace /\ Track
    /\ UNCHANGED <<relay, pages>>

Unsubscribe ==
  \E s \in Sockets :
    Quiet /\ UnsubscribePresence(s) /\ inflight' = NoRace /\ Track
    /\ UNCHANGED <<relay, pages>>

Join ==
  \E s \in Sockets, name \in JoinArgs :
    Quiet /\ JoinHandler(s, name) /\ inflight' = NoRace /\ Track
    /\ UNCHANGED <<relay, pages>>

Mute ==
  \E s \in Sockets, payload \in MutePayloads :
    Quiet /\ MuteHandler(s, payload) /\ inflight' = NoRace /\ Track
    /\ UNCHANGED <<relay, pages>>

Signal ==
  \E s \in Sockets, t \in PeerIds, data \in SignalData :
    Quiet /\ SignalHandler(s, t, data) /\ inflight' = NoRace /\ Track
    /\ UNCHANGED <<relay, pages>>

Disconnect ==
  \E s \in Sockets :
    Quiet /\ DisconnectHandler(s) /\ inflight' = NoRace /\ Track
    /\ UNCHANGED <<relay, pages>>

(* Several connections that have not joined send join with one name that   *)
(* no session holds; the messages are in flight together.                  *)
SendJoins ==
  \E name \in JoinArgs, R \in SUBSET (Open \ {c \in Sockets : ClientsHas(clients, c)}) :
    /\ Quiet
    /\ Cardinality(R) >= 2
    /\ ~ \E i \in 1..Len(clients) : clients[i].name = name
    /\ inflight' = [name |-> name, sent |-> R, waiting |-> R, won |-> {},
                    lost |-> {}]
    /\ last' = Event("send-joins", 0, [name |-> name])
    /\ emitted' = <<>>
    /\ scenario' = ScenarioStep(scenario, last')
    /\ UNCHANGED <<status, clients, peerToSocket, presenceWatchers, accepted,
                   refused, seen, relay, pages>>

(* The server takes the in-flight joins in any order.                      *)
ProcessJoin ==
  \E s \in inflight.waiting :
    /\ JoinHandler(s, inflight.name)
    /\ inflight' =
         [inflight EXCEPT
            !.waiting = @ \ {s},
            !.won = @ \cup {emitted'[i].to :
                      i \in {j \in 1..Len(emitted') : emitted'[j].ev = "peer-list"}},
            !.lost = @ \cup {emitted'[i].to :
                      i \in {j \in 1..Len(emitted') : emitted'[j].ev = "join-error"}}]
    /\ Track
    /\ UNCHANGED <<relay, pages>>

Next ==
  \/ Connect
  \/ Subscribe
  \/ Unsubscribe
  \/ Join
  \/ Mute
  \/ Signal
  \/ Disconnect
  \/ SendJoins
  \/ ProcessJoin

Spec == Init /\ [][Next]_vars

----------------------------------------------------------------------------
(* The relay with its channels. Each client has an ordered, reliable       *)
(* channel to the server and one back: the server handles the signals of a *)
(* socket in the order they were sent, and what it emits to a socket       *)
(* arrives in the order of the emits. The clients number their signals.    *)

RelayConnect ==
  \E s \in Sockets :
    Connection(s) /\ inflight' = NoRace /\ Track /\ UNCHANGED <<relay, pages>>

RelayJoin ==
  \E s \in Sockets, name \in Names :
    JoinHandler(s, name) /\ inflight' = NoRace /\ Track /\ UNCHANGED <<relay, pages>>

(* What a closed connection had sent and the server had not handled is     *)
(* never handled.                                                          *)
RelayDisconnect ==
  \E s \in Sockets :
    /\ DisconnectHandler(s) /\ inflight' = NoRace /\ Track
    /\ relay' = [relay EXCEPT !.wire[s] = <<>>]
    /\ UNCHANGED pages

(* socket.emit('signal', {targetPeerId, data}) in a client, to a peer      *)
(* other than itself.                                                      *)
ClientSignal ==
  \E s \in Open, t \in PeerIds :
    /\ t # Uuid(s)
    /\ relay.sent < MaxSignals
    /\ relay' = [relay EXCEPT
                   !.sent = @ + 1,
                   !.wire[s] = Append(@, [targetPeerId |-> t,
                                          data |-> [candidate |-> relay.sent + 1]])]
    /\ UNCHANGED <<status, clients, peerToSocket, presenceWatchers, emitted,
                   last, accepted, refused, inflight, seen, scenario, pages>>

(* The server handles the oldest signal of a socket.                       *)
RelaySignal ==
  \E s \in Open :
    /\ relay.wire[s] # <<>>
    /\ SignalHandler(s, Head(relay.wire[s]).targetPeerId,
                     Head(relay.wire[s]).data)
    /\ inflight' = NoRace
    /\ Track
    /\ relay' = [relay EXCEPT
                   !.wire[s] = Tail(@),
                   !.delivered = [t \in Sockets |->
                      relay.delivered[t] \o
                        [i \in 1..Cardinality(Sent(emitted', t, "signal")) |->
                           emitted'[SetToSeq(Sent(emitted', t, "signal"))[i]].data]]]
    /\ UNCHANGED pages

RelayNext ==
  \/ RelayConnect
  \/ RelayJoin
  \/ RelayDisconnect
  \/ ClientSignal
  \/ RelaySignal

SpecRelay == Init /\ [][RelayNext]_vars

----------------------------------------------------------------------------
(* The server of src/nexus-voice/server/sockets.js: the same registry and  *)
(* relay with no name check in join, no mute and no presence.              *)

(* socket.on('join', ({ name }) => ...)                                    *)
PlainJoinHandler(s, name) ==
  /\ status[s] = "open"
  /\ clients' = ClientsSet(clients, s, Uuid(s), name)
  /\ peerToSocket' = PeerToSocketSet(peerToSocket, Uuid(s), s)
  /\ emitted' = Emit(s, "peer-list", PeerList(clients'))
                \o Broadcast(s, "peer-joined", [peerId |-> Uuid(s), name |-> name])
  /\ last' = Event("join", s,
                   [name |-> name, rejoin |-> ClientsHas(clients, s),
                    retry |-> s \in refused,
                    freed |-> (last.ev = "disconnect" /\ last.arg.name = name)])
  /\ Observe(emitted')
  /\ UNCHANGED <<status, presenceWatchers>>

(* socket.on('disconnect')                                                 *)
PlainDisconnectHandler(s) ==
  /\ status[s] = "open"
  /\ status' = [status EXCEPT ![s] = "closed"]
  /\ IF ClientsHas(clients, s)
     THEN LET clientInfo == ClientsGet(clients, s)
          IN /\ clients' = ClientsDelete(clients, s)
             /\ peerToSocket' = PeerToSocketDelete(peerToSocket, clientInfo.peerId)
             /\ emitted' = Broadcast(s, "peer-left",
                                     [peerId |-> clientInfo.peerId])
     ELSE /\ emitted' = <<>>
          /\ UNCHANGED <<clients, peerToSocket>>
  /\ last' = Event("disconnect", s,
                   [name |-> IF ClientsHas(clients, s)
                             THEN ClientsGet(clients, s).name ELSE Undefined,
                    joined |-> ClientsHas(clients, s)])
  /\ accepted' = accepted \ {s}
  /\ refused' = refused \ {s}
  /\ UNCHANGED presenceWatchers

PlainConnect ==
  \E s \in Sockets :
    Connection(s) /\ inflight' = NoRace /\ Track /\ UNCHANGED <<relay, pages>>

PlainJoin ==
  \E s \in Sockets, name \in JoinArgs :
    PlainJoinHandler(s, name) /\ inflight' = NoRace /\ Track /\ UNCHANGED <<relay, pages>>

PlainSignal ==
  \E s \in Sockets, t \in PeerIds, data \in SignalData :
    SignalHandler(s, t, data) /\ inflight' = NoRace /\ Track /\ UNCHANGED <<relay, pages>>

PlainDisconnect ==
  \E s \in Sockets :
    PlainDisconnectHandler(s) /\ inflight' = NoRace /\ Track /\ UNCHANGED <<relay, pages>>

PlainNext ==
  \/ PlainConnect
  \/ PlainJoin
  \/ PlainSignal
  \/ PlainDisconnect

SpecPlain == Init /\ [][PlainNext]_vars

----------------------------------------------------------------------------
(* The server of src/unnamed/part_000: presence goes to every connection,  *)
(* with no subscription, as the list of {peerId, name}; mute is taken from *)
(* joined sessions only and goes to every connection.                      *)

(* io.on('connection'): welcome, then the presence list.                   *)
VariantConnection(s) ==
  /\ status[s] = "new"
  /\ status' = [status EXCEPT ![s] = "open"]
  /\ emitted' = Emit(s, "welcome",
                     [peerId |-> Uuid(s), iceServers |-> ICE_SERVERS,
                      icePolicy |-> ICE_POLICY])
                \o Emit(s, "presence", PeerList(clients))
  /\ last' = Event("connection", s,
                   [afterMute |-> (last.ev = "mute" /\ last.arg.muted)])
  /\ UNCHANGED <<clients, peerToSocket, presenceWatchers, accepted,
                 refused>>

(* socket.on('join', ({ name }) => ...)                                    *)
VariantJoinHandler(s, name) ==
  /\ status[s] = "open"
  /\ IF NameTaken(clients, name)
     THEN JoinRejected(s, name)
     ELSE /\ clients' = ClientsSet(clients, s, Uuid(s), name)
          /\ peerToSocket' = PeerToSocketSet(peerToSocket, Uuid(s), s)
          /\ emitted' = Emit(s, "peer-list", PeerList(clients'))
                        \o Broadcast(s, "peer-joined",
                                     [peerId |-> Uuid(s), name |-> name])
                        \o IoEmit("presence", PeerList(clients'))
  /\ last' = Event("join", s,
                   [name |-> name, rejoin |-> ClientsHas(clients, s),
                    retry |-> s \in refused,
                    freed |-> (last.ev = "disconnect" /\ last.arg.name = name)])
  /\ Observe(emitted')
  /\ UNCHANGED <<status, presenceWatchers>>

VariantMuteHandlerExcludingSender(s, payload) ==
  /\ status[s] = "open"
  /\ emitted' = IF ClientsHas(clients, s)
                THEN Broadcast(s, "mute",
                               [peerId |-> ClientsGet(clients, s).peerId,
                                muted |-> payload.muted])
                ELSE <<>>
  /\ last' = Event("mute", s, payload)
  /\ UNCHANGED <<status, clients, peerToSocket, presenceWatchers, accepted,
                 refused>>

(* socket.on('mute', ({ muted }) => ...): only if the sender is joined.    *)
VariantMuteHandler(s, payload) ==
  /\ status[s] = "open"
  /\ emitted' = IF ClientsHas(clients, s)
                THEN IoEmit("mute",
                            [peerId |-> ClientsGet(clients, s).peerId,
                             muted |-> payload.muted])
                ELSE <<>>
  /\ last' = Event("mute", s, payload)
  /\ UNCHANGED <<status, clients, peerToSocket, presenceWatchers, accepted,
                 refused>>

(* socket.on('disconnect'): the socket has left the namespace, so io.emit  *)
(* does not reach it.                                                      *)
VariantDisconnectHandler(s) ==
  /\ status[s] = "open"
  /\ status' = [status EXCEPT ![s] = "closed"]
  /\ IF ClientsHas(clients, s)
     THEN LET clientInfo == ClientsGet(clients, s)
              others == SetToSeq(Open \ {s})
          IN /\ clients' = ClientsDelete(clients, s)
             /\ peerToSocket' = PeerToSocketDelete(peerToSocket, clientInfo.peerId)
             /\ emitted' = Broadcast(s, "peer-left",
                                     [peerId |-> clientInfo.peerId])
                           \o [i \in 1..Len(others) |->
                                 Msg(others[i], "presence", PeerList(clients'))]
     ELSE /\ emitted' = <<>>
          /\ UNCHANGED <<clients, peerToSocket>>
  /\ last' = Event("disconnect", s,
                   [name |-> IF ClientsHas(clients, s)
                             THEN ClientsGet(clients, s).name ELSE Undefined,
                    joined |-> ClientsHas(clients, s)])
  /\ accepted' = accepted \ {s}
  /\ refused' = refused \ {s}
  /\ UNCHANGED presenceWatchers

VariantConnect ==
  \E s \in Sockets :
    VariantConnection(s) /\ inflight' = NoRace /\ Track
    /\ UNCHANGED <<relay, pages>>

VariantJoin ==
  \E s \in Sockets, name \in JoinArgs :
    VariantJoinHandler(s, name) /\ inflight' = NoRace /\ Track
    /\ UNCHANGED <<relay, pages>>

VariantSignal ==
  \E s \in Sockets, t \in PeerIds, data \in SignalData :
    SignalHandler(s, t, data) /\ inflight' = NoRace /\ Track
    /\ UNCHANGED <<relay, pages>>

VariantMute ==
  \E s \in Sockets, payload \in MutePayloads :
    VariantMuteHandler(s, payload) /\ inflight' = NoRace /\ Track
    /\ UNCHANGED <<relay, pages>>

VariantDisconnect ==
  \E s \in Sockets :
    VariantDisconnectHandler(s) /\ inflight' = NoRace /\ Track
    /\ UNCHANGED <<relay, pages>>

VariantNext ==
  \/ VariantConnect
  \/ VariantJoin
  \/ VariantSignal
  \/ VariantMute
  \/ VariantDisconnect

SpecVariant == Init /\ [][VariantNext]_vars

----------------------------------------------------------------------------
(* The lobby and room pages (src/client/public/js) over the server. A tab  *)
(* shows the lobby or the room; each page load opens a socket of its own,  *)
(* which connects some time later. The client's emits reach the server in  *)
(* order; what the server emits to a socket reaches its page at once.      *)

ClientEvent(ev, name) == [ev |-> ev, name |-> name]

(* ensurePeerConnection(remotePeerId, remoteName, true): the emit of the   *)
(* local description, an offer, for the remote peer.                       *)
OfferEvent(remotePeerId) ==
  [ev |-> "signal", name |-> Undefined, targetPeerId |-> remotePeerId,
   data |-> [type |-> "offer", sdp |-> "v=0 offer"]]

(* The server gives the next unused socket id to a new connection.         *)
NewSocket(s) ==
  /\ status[s] = "new"
  /\ \A t \in Sockets : status[t] = "new" => s <= t

(* activeNames.includes(name)                                              *)
Includes(list, n) == \E i \in 1..Len(list) : list[i] = n

(* lobby.js socket.on('presence'): every entry whose name is in the list   *)
(* gets the class online, every other entry loses it.                      *)
OnlineAfter(online, activeNames) ==
  (online \cup {n \in Names : Includes(activeNames, n)})
    \ {n \in Names : ~Includes(activeNames, n)}

RECURSIVE React(_, _)
(* The pages' handlers for the messages of out, in order: the lobby's      *)
(* presence handler; the room's join-error handler, which disconnects,     *)
(* forgets the name and loads the lobby; the room's peer-joined handler,   *)
(* which offers to the peer named in the message (its peer-list handler    *)
(* creates the connections and offers to nobody). What the room does with  *)
(* a relayed signal is left to the browser's WebRTC engine.                *)
React(pg, out) ==
  IF out = <<>> THEN pg
  ELSE LET m == Head(out)
           T == {t \in Tabs : pg.tabs[t].sock = m.to}
           t == CHOOSE x \in T : TRUE
           next ==
             IF T = {} THEN pg
             ELSE IF m.ev = "presence" /\ pg.tabs[t].page = "lobby"
                  THEN [pg EXCEPT !.tabs[t].online = OnlineAfter(@, m.data)]
             ELSE IF m.ev = "join-error" /\ pg.tabs[t].page = "room"
                  THEN [pg EXCEPT
                          !.tabs[t] = FreshLobby,
                          !.wire[m.to] =
                             Append(@, ClientEvent("disconnect", Undefined))]
             ELSE IF m.ev = "peer-joined" /\ pg.tabs[t].page = "room"
                  THEN [pg EXCEPT
                          !.offers = @ \cup {<<Uuid(m.to), m.data.peerId>>},
                          !.wire[m.to] = Append(@, OfferEvent(m.data.peerId))]
             ELSE pg
       IN React(next, Tail(out))

(* The lobby's socket connects; its subscribe-presence was emitted at page *)
(* load and is sent now.                                                   *)
LobbyConnect ==
  \E t \in Tabs, s \in Sockets :
    /\ pages.tabs[t].page = "lobby"
    /\ pages.tabs[t].sock = 0
    /\ NewSocket(s)
    /\ Connection(s) /\ inflight' = NoRace /\ Track
    /\ pages' = [pages EXCEPT
                   !.tabs[t].sock = s,
                   !.wire[s] = <<ClientEvent("subscribe-presence", Undefined)>>]
    /\ UNCHANGED relay

(* The room's socket connects and is sent welcome, whose handler emits     *)
(* join with the stored name.                                              *)
RoomConnect ==
  \E t \in Tabs, s \in Sockets :
    /\ pages.tabs[t].page = "room"
    /\ pages.tabs[t].sock = 0
    /\ NewSocket(s)
    /\ Connection(s) /\ inflight' = NoRace /\ Track
    /\ pages' = [pages EXCEPT
                   !.tabs[t].sock = s,
                   !.wire[s] = <<ClientEvent("join", pages.tabs[t].name)>>]
    /\ UNCHANGED relay

(* What a page that closes its socket leaves for the server to handle.     *)
Leaving(pg, t, evs) ==
  IF pg.tabs[t].sock = 0 THEN pg.wire
  ELSE [pg.wire EXCEPT ![pg.tabs[t].sock] = @ \o evs]

LobbyClickAnyName(t, n) ==
  /\ pages.tabs[t].page = "lobby"
  /\ pages' = [tabs |-> [pages.tabs EXCEPT
                           ![t] = [page |-> "room", sock |-> 0, name |-> n,
                                   online |-> {}]],
               wire |-> Leaving(pages, t,
                          <<ClientEvent("unsubscribe-presence", Undefined),
                            ClientEvent("disconnect", Undefined)>>),
               offers |-> pages.offers]

(* lobby.js click handler of the entry n: nothing if the entry is online;  *)
(* else store the name, unsubscribe, disconnect, load the room.            *)
LobbyClick(t, n) ==
  /\ pages.tabs[t].page = "lobby"
  /\ n \notin pages.tabs[t].online
  /\ pages' = [tabs |-> [pages.tabs EXCEPT
                           ![t] = [page |-> "room", sock |-> 0, name |-> n,
                                   online |-> {}]],
               wire |-> Leaving(pages, t,
                          <<ClientEvent("unsubscribe-presence", Undefined),
                            ClientEvent("disconnect", Undefined)>>),
               offers |-> pages.offers]

ClickName ==
  \E t \in Tabs, n \in Names :
    /\ LobbyClick(t, n)
    /\ UNCHANGED <<status, clients, peerToSocket, presenceWatchers, emitted,
                   last, accepted, refused, inflight, seen, relay, scenario>>

(* room.js logout button: disconnect, forget the name, load the lobby.     *)
Logout ==
  \E t \in Tabs :
    /\ pages.tabs[t].page = "room"
    /\ pages' = [tabs |-> [pages.tabs EXCEPT ![t] = FreshLobby],
                 wire |-> Leaving(pages, t,
                            <<ClientEvent("disconnect", Undefined)>>),
                 offers |-> pages.offers]
    /\ UNCHANGED <<status, clients, peerToSocket, presenceWatchers, emitted,
                   last, accepted, refused, inflight, seen, relay, scenario>>

(* The server handles the oldest event of a socket; the pages handle what  *)
(* it emits.                                                               *)
Handled(s) == [pages EXCEPT !.wire[s] = Tail(@)]

HandleSubscribe ==
  \E s \in Open :
    /\ pages.wire[s] # <<>>
    /\ Head(pages.wire[s]).ev = "subscribe-presence"
    /\ SubscribePresence(s) /\ inflight' = NoRace /\ Track
    /\ pages' = React(Handled(s), emitted')
    /\ UNCHANGED relay

HandleUnsubscribe ==
  \E s \in Open :
    /\ pages.wire[s] # <<>>
    /\ Head(pages.wire[s]).ev = "unsubscribe-presence"
    /\ UnsubscribePresence(s) /\ inflight' = NoRace /\ Track
    /\ pages' = React(Handled(s), emitted')
    /\ UNCHANGED relay

HandleJoin ==
  \E s \in Open :
    /\ pages.wire[s] # <<>>
    /\ Head(pages.wire[s]).ev = "join"
    /\ JoinHandler(s, Head(pages.wire[s]).name) /\ inflight' = NoRace /\ Track
    /\ pages' = React(Handled(s), emitted')
    /\ UNCHANGED relay

(* The server relays the offer of a room client.                           *)
HandleSignal ==
  \E s \in Open :
    /\ pages.wire[s] # <<>>
    /\ Head(pages.wire[s]).ev = "signal"
    /\ SignalHandler(s, Head(pages.wire[s]).targetPeerId,
                     Head(pages.wire[s]).data)
    /\ inflight' = NoRace /\ Track
    /\ pages' = React(Handled(s), emitted')
    /\ UNCHANGED relay

HandleDisconnect ==
  \E s \in Open :
    /\ pages.wire[s] # <<>>
    /\ Head(pages.wire[s]).ev = "disconnect"
    /\ DisconnectHandler(s) /\ inflight' = NoRace /\ Track
    /\ pages' = React([pages EXCEPT !.wire[s] = <<>>], emitted')
    /\ UNCHANGED relay

PagesNext ==
  \/ LobbyConnect
  \/ RoomConnect
  \/ ClickName
  \/ Logout
  \/ HandleSubscribe
  \/ HandleUnsubscribe
  \/ HandleJoin
  \/ HandleSignal
  \/ HandleDisconnect

SpecPages == Init /\ [][PagesNext]_vars

----------------------------------------------------------------------------
(* Properties of the registry and of the join and disconnect handlers.     *)

(* The name is held by an entry of the registry cl.                        *)
Held(cl, n) == \E i \in 1..Len(cl) : cl[i].name = n

InRoster(cl, s) == \E i \in 1..Len(cl) : cl[i].sid = s

NameIn(cl, s) == cl[CHOOSE i \in 1..Len(cl) : cl[i].sid = s].name

(* The step is the handling of join {name: n} from socket s.               *)
JoinStep(s, n) == last'.ev = "join" /\ last'.sid = s /\ last'.arg.name = n

DisconnectStep(s) == last'.ev = "disconnect" /\ last'.sid = s

(* C1: in every reachable state no two entries of the registry hold the    *)
(* same display name.                                                      *)
C1_UniqueNames ==
  \A i, j \in 1..Len(clients) : i # j => clients[i].name # clients[j].name

(* Two sessions are joined and a join asking for a held name was handled.  *)
C1_Witness ==
  /\ Len(clients) >= 2
  /\ last.ev = "join"
  /\ SentAny(emitted, "join-error") # {}

(* C2: of the joins that un-joined connections sent together for one free  *)
(* name, in whatever order the server takes them, exactly one is accepted  *)
(* (peer-list, in the roster under the name) and every other one gets      *)
(* join-error and is not in the roster.                                    *)
C2_OneWinner ==
  LET done == inflight.sent \ inflight.waiting
  IN /\ inflight.won \cap inflight.lost = {}
     /\ inflight.won \cup inflight.lost = done
     /\ Cardinality(inflight.won) <= 1
     /\ done # {} =>
          \E w \in inflight.won :
            /\ inflight.won = {w}
            /\ InRoster(clients, w)
            /\ NameIn(clients, w) = inflight.name
            /\ inflight.lost = done \ {w}
            /\ \A l \in inflight.lost : ~InRoster(clients, l)

(* All the joins of a race of at least two have been handled.              *)
C2_Witness ==
  /\ Cardinality(inflight.sent) >= 2
  /\ inflight.waiting = {}
  /\ inflight.lost # {}

(* C3: a join for a held name leaves clients and peerToSocket as they were *)
(* and emits one message only, join-error to the requester.                *)
C3_RejectedJoinNoEffect ==
  [][\A s \in Sockets, n \in JoinArgs :
       (JoinStep(s, n) /\ Held(clients, n)) =>
         /\ clients' = clients
         /\ peerToSocket' = peerToSocket
         /\ Len(emitted') = 1
         /\ emitted'[1].to = s
         /\ emitted'[1].ev = "join-error"]_vars

(* A join was refused while a watcher and another connection were there to *)
(* be notified.                                                            *)
C3_Witness ==
  /\ last.ev = "join"
  /\ SentAny(emitted, "join-error") # {}
  /\ presenceWatchers # {}
  /\ Cardinality(Open) >= 2

(* C4: a connection that is not joined and whose join is refused stays     *)
(* open and not joined, and a later join of it for a free name is accepted *)
(* (it enters the roster under the name and gets peer-list).               *)
C4_RetryAfterReject ==
  [][\A s \in Sockets, n \in JoinArgs :
       /\ (JoinStep(s, n) /\ Held(clients, n) /\ ~InRoster(clients, s)) =>
            /\ status'[s] = "open"
            /\ ~InRoster(clients', s)
            /\ s \in refused'
       /\ (JoinStep(s, n) /\ s \in refused /\ ~InRoster(clients, s)
             /\ ~Held(clients, n)) =>
            /\ InRoster(clients', s)
            /\ NameIn(clients', s) = n
            /\ Sent(emitted', s, "peer-list") # {}
            /\ Sent(emitted', s, "join-error") = {}]_vars

(* A connection refused earlier, and not joined since, has been accepted.  *)
C4_Witness ==
  /\ last.ev = "join"
  /\ ~last.arg.rejoin
  /\ last.arg.retry
  /\ InRoster(clients, last.sid)
  /\ Sent(emitted, last.sid, "peer-list") # {}

(* C5: the roster holds exactly the identities of the connections whose    *)
(* join was accepted and that have not disconnected, each once; it is      *)
(* empty at the start.                                                     *)
C5_RosterExact ==
  /\ {clients[i].peerId : i \in 1..Len(clients)}
       = {Uuid(s) : s \in accepted \cap Open}
  /\ \A i, j \in 1..Len(clients) :
       i # j => clients[i].peerId # clients[j].peerId
  /\ last.ev = "start" => (Len(clients) = 0 /\ DOMAIN peerToSocket = {})

(* One session has left and a connection refused earlier is the roster.    *)
C5_Witness ==
  /\ last.ev = "join"
  /\ last.arg.retry
  /\ Len(clients) = 1
  /\ clients[1].sid = last.sid
  /\ \E s \in Sockets : status[s] = "closed" 

(* C6: peerToSocket maps identity p to socket s exactly when clients maps  *)
(* s to an entry whose peerId is p.                                        *)
C6_MapsConsistent ==
  \A p \in PeerIds, s \in Sockets :
    (p \in DOMAIN peerToSocket /\ peerToSocket[p] = s)
      <=> (\E i \in 1..Len(clients) :
             clients[i].sid = s /\ clients[i].peerId = p)

(* A joined session has just left while another stays joined.              *)
C6_Witness ==
  /\ last.ev = "disconnect"
  /\ last.arg.joined
  /\ Len(clients) >= 1
  /\ DOMAIN peerToSocket # {}

(* C7: once the disconnect of a joined session is handled its identity     *)
(* does not resolve in peerToSocket, now or later, and a join of another   *)
(* connection handled next for the name it held is accepted.               *)
C7_LeaveFreesName ==
  [][/\ \A s \in Sockets :
          (DisconnectStep(s) /\ s \in accepted) =>
            Uuid(s) \notin DOMAIN peerToSocket'
     /\ \A s \in Sockets :
          status[s] = "closed" => Uuid(s) \notin DOMAIN peerToSocket'
     /\ \A t \in Sockets :
          (last.ev = "disconnect" /\ last.arg.joined
             /\ JoinStep(t, last.arg.name)) =>
            /\ InRoster(clients', t)
            /\ NameIn(clients', t) = last.arg.name
            /\ Sent(emitted', t, "peer-list") # {}]_vars

(* The name a session held when it left was asked for next by another     *)
(* connection, which now holds it.                                         *)
C7_Witness ==
  /\ last.ev = "join"
  /\ last.arg.freed
  /\ last.arg.name \in Names
  /\ Sent(emitted, last.sid, "peer-list") # {}
  /\ \E s \in Sockets : status[s] = "closed" /\ Uuid(s) \notin DOMAIN peerToSocket

(* C8: the disconnect of a connection whose join was never accepted leaves *)
(* clients and peerToSocket as they were and emits no peer-left and no     *)
(* presence.                                                               *)
C8_NeverJoinedLeaveNoEffect ==
  [][\A s \in Sockets :
       (DisconnectStep(s) /\ s \notin accepted) =>
         /\ clients' = clients
         /\ peerToSocket' = peerToSocket
         /\ SentAny(emitted', "peer-left") = {}
         /\ SentAny(emitted', "presence") = {}]_vars

(* A connection that never joined has left while a session is joined and   *)
(* another connection watches presence.                                    *)
C8_Witness ==
  /\ last.ev = "disconnect"
  /\ ~last.arg.joined
  /\ Len(clients) >= 1
  /\ presenceWatchers # {}

(* C9: an accepted join emits one peer-list, to the joiner, and it lists   *)
(* exactly the identity and name of every session joined then, the joiner  *)
(* among them.                                                             *)
C9_PeerListToJoiner ==
  [][\A s \in Sockets, n \in JoinArgs :
       (JoinStep(s, n) /\ ~Held(clients, n)) =>
         /\ Cardinality(SentAny(emitted', "peer-list")) = 1
         /\ \A k \in SentAny(emitted', "peer-list") :
              /\ emitted'[k].to = s
              /\ Len(emitted'[k].data) = Len(clients')
              /\ {emitted'[k].data[i] : i \in 1..Len(emitted'[k].data)}
                   = {[peerId |-> clients'[i].peerId, name |-> clients'[i].name] :
                        i \in 1..Len(clients')}
              /\ \E i \in 1..Len(emitted'[k].data) :
                   emitted'[k].data[i] = [peerId |-> Uuid(s), name |-> n]]_vars

(* A join was accepted into a roster that held another session.            *)
C9_Witness ==
  /\ last.ev = "join"
  /\ ~last.arg.rejoin
  /\ Sent(emitted, last.sid, "peer-list") # {}
  /\ Len(clients) >= 2

(* C10: on an accepted join every other joined session gets exactly one    *)
(* peer-joined, carrying the joiner's identity and name.                   *)
C10_PeerJoinedToOthers ==
  [][\A s \in Sockets, n \in JoinArgs :
       (JoinStep(s, n) /\ ~Held(clients, n)) =>
         \A t \in Sockets \ {s} :
           InRoster(clients', t) =>
             /\ Cardinality(Sent(emitted', t, "peer-joined")) = 1
             /\ \A k \in Sent(emitted', t, "peer-joined") :
                  emitted'[k].data = [peerId |-> Uuid(s), name |-> n]]_vars

(* A join was accepted and a peer-joined went to a joined session.         *)
C10_Witness ==
  /\ last.ev = "join"
  /\ Sent(emitted, last.sid, "peer-list") # {}
  /\ \E t \in Sockets \ {last.sid} :
       InRoster(clients, t) /\ Sent(emitted, t, "peer-joined") # {}

----------------------------------------------------------------------------
(* Properties of the notices, the relay and the presence feed.             *)

(* The identity is the peerId of an entry of the registry cl.              *)
Joined(cl, p) == \E i \in 1..Len(cl) : cl[i].peerId = p

SocketOf(cl, p) == cl[CHOOSE i \in 1..Len(cl) : cl[i].peerId = p].sid

(* C11: no connection is ever sent a peer-joined that carries the identity *)
(* its own welcome carried, also when it sends join more than once.        *)
C11_NoOwnPeerJoined ==
  \A k \in SentAny(emitted, "peer-joined") :
    emitted[k].data.peerId # seen[emitted[k].to].identity

(* A joined connection sent join again, was accepted, and the others were  *)
(* sent peer-joined.                                                       *)
C11_Witness ==
  /\ last.ev = "join"
  /\ last.arg.rejoin
  /\ Sent(emitted, last.sid, "peer-list") # {}
  /\ SentAny(emitted, "peer-joined") # {}

(* C12: the disconnect of a joined session sends each session still joined *)
(* exactly one peer-left with its identity; a peer-left is only ever       *)
(* emitted by the disconnect of a joined session, for that session, and a  *)
(* closed socket stays closed, so none is emitted for the identity again.  *)
C12_PeerLeftOnce ==
  [][/\ \A s \in Sockets :
          (DisconnectStep(s) /\ s \in accepted) =>
            \A t \in Sockets :
              InRoster(clients', t) =>
                /\ Cardinality(Sent(emitted', t, "peer-left")) = 1
                /\ \A k \in Sent(emitted', t, "peer-left") :
                     emitted'[k].data = [peerId |-> seen[s].identity]
     /\ \A k \in SentAny(emitted', "peer-left") :
          \E s \in accepted :
            /\ DisconnectStep(s)
            /\ status[s] = "open" /\ status'[s] = "closed"
            /\ emitted'[k].data.peerId = seen[s].identity
     /\ \A s \in Sockets : status[s] = "closed" => status'[s] = "closed"]_vars

(* A joined session has left and a session still joined was told.          *)
C12_Witness ==
  /\ last.ev = "disconnect"
  /\ last.arg.joined
  /\ \E t \in Sockets :
       InRoster(clients, t) /\ Sent(emitted, t, "peer-left") # {}

(* C13: a signal whose target is the identity of a joined session is       *)
(* emitted exactly once, to that session's socket and to no other, with    *)
(* from the sender's welcome identity and data the payload as sent.        *)
C13_SignalRelayed ==
  (last.ev = "signal" /\ Joined(clients, last.arg.targetPeerId)) =>
    /\ Len(emitted) = 1
    /\ emitted[1].to = SocketOf(clients, last.arg.targetPeerId)
    /\ seen[emitted[1].to].identity = last.arg.targetPeerId
    /\ emitted[1].ev = "signal"
    /\ emitted[1].data = [from |-> seen[last.sid].identity,
                          data |-> last.arg.data]

(* An offer was relayed from one connection to another, joined one.        *)
C13_Witness ==
  /\ last.ev = "signal"
  /\ Joined(clients, last.arg.targetPeerId)
  /\ last.arg.data = [type |-> "offer", sdp |-> "v=0 offer"]
  /\ Len(emitted) = 1
  /\ emitted[1].to # last.sid

(* C14: a signal whose target is not the identity of a joined session when *)
(* it is handled emits nothing, to the target, the sender or anyone, and   *)
(* leaves the registry as it was.                                          *)
C14_UnknownTargetDropped ==
  [][(last'.ev = "signal" /\ ~Joined(clients, last'.arg.targetPeerId)) =>
       /\ emitted' = <<>>
       /\ clients' = clients
       /\ peerToSocket' = peerToSocket
       /\ presenceWatchers' = presenceWatchers
       /\ status' = status]_vars

(* Signals were dropped: one to an identity whose session had left.        *)
C14_Witness ==
  /\ last.ev = "signal"
  /\ emitted = <<>>
  /\ \E t \in Sockets :
       /\ status[t] = "closed"
       /\ seen[t].identity = last.arg.targetPeerId
       /\ seen[t].first = "welcome"
  /\ Len(clients) >= 1

(* The numbers of the signals from identity p among those delivered to t.  *)
RECURSIVE NumbersFrom(_, _)
NumbersFrom(msgs, p) ==
  IF msgs = <<>> THEN <<>>
  ELSE (IF Head(msgs).from = p THEN <<Head(msgs).data.candidate>> ELSE <<>>)
       \o NumbersFrom(Tail(msgs), p)

Increasing(q) == \A i, j \in 1..Len(q) : i < j => q[i] < q[j]

(* C15: the signals one sender sent to one target reach the target in the  *)
(* order they were sent, none twice: with the signals numbered in sending  *)
(* order, the numbers delivered to a socket from one sender increase.      *)
C15_RelayKeepsOrder ==
  \A t \in Sockets, p \in PeerIds :
    Increasing(NumbersFrom(relay.delivered[t], p))

(* Two signals of one sender have been delivered to one other socket.      *)
C15_Witness ==
  \E t \in Sockets, s \in Sockets :
    /\ s # t
    /\ Len(NumbersFrom(relay.delivered[t], seen[s].identity)) >= 2

(* C16: when a joined session sends mute {muted: m}, every other joined     *)
(* session is sent exactly one mute, {peerId: the sender's identity,        *)
(* muted: m}, and the sender is sent nothing at all.                        *)
C16_MuteToOthers ==
  (last.ev = "mute" /\ InRoster(clients, last.sid)) =>
    /\ \A t \in Sockets \ {last.sid} :
         InRoster(clients, t) =>
           /\ Cardinality(Sent(emitted, t, "mute")) = 1
           /\ \A k \in Sent(emitted, t, "mute") :
                emitted[k].data = [peerId |-> seen[last.sid].identity,
                                   muted |-> last.arg.muted]
    /\ \A k \in 1..Len(emitted) : emitted[k].to # last.sid

(* A joined session muted itself and another joined session was told.      *)
C16_Witness ==
  /\ last.ev = "mute"
  /\ last.arg.muted
  /\ InRoster(clients, last.sid)
  /\ \E t \in Sockets \ {last.sid} :
       InRoster(clients, t) /\ Sent(emitted, t, "mute") # {}

(* C17: whatever refers to a connection carries the identity its welcome   *)
(* carried: the entries of the registry and of peer-list, the peerId of    *)
(* peer-joined, peer-left and mute, the from of signal, whatever the       *)
(* payloads say; and two live connections never have the same identity.    *)
C17_IdentityIsServerIssued ==
  /\ \A i \in 1..Len(clients) :
       /\ clients[i].peerId = seen[clients[i].sid].identity
       /\ clients[i].peerId \in DOMAIN peerToSocket
       /\ peerToSocket[clients[i].peerId] = clients[i].sid
  /\ \A k \in 1..Len(emitted) :
       /\ emitted[k].ev \in {"peer-joined", "peer-left", "mute"} =>
            emitted[k].data.peerId = seen[last.sid].identity
       /\ emitted[k].ev = "signal" =>
            emitted[k].data.from = seen[last.sid].identity
       /\ emitted[k].ev = "peer-list" =>
            \A i \in 1..Len(emitted[k].data) :
              \E j \in 1..Len(clients) :
                /\ emitted[k].data[i].name = clients[j].name
                /\ emitted[k].data[i].peerId = seen[clients[j].sid].identity
  /\ \A s \in Open, u \in Open :
       s # u => /\ seen[s].identity # seen[u].identity
                /\ seen[s].identity # NoIdentity

(* A mute whose payload named another connection's identity was handled    *)
(* and the notice went out.                                                *)
C17_Witness ==
  /\ last.ev = "mute"
  /\ last.arg.peerId # seen[last.sid].identity
  /\ \E t \in Open : last.arg.peerId = seen[t].identity
  /\ SentAny(emitted, "mute") # {}

(* C18: a connection is sent welcome exactly once, and before anything     *)
(* else: a connected or closed socket has had one welcome and it was its   *)
(* first message, a socket not yet connected has been sent nothing.        *)
C18_WelcomeOnceAndFirst ==
  \A s \in Sockets :
    IF status[s] = "new"
    THEN seen[s].welcomes = 0 /\ seen[s].first = "none"
    ELSE seen[s].welcomes = 1 /\ seen[s].first = "welcome"

(* A connection that was welcomed has since been sent its peer-list.       *)
C18_Witness ==
  \E s \in Open :
    /\ seen[s].welcomes = 1
    /\ seen[s].first = "welcome"
    /\ Sent(emitted, s, "peer-list") # {}

(* C19: presence is emitted to a connection only while it is subscribed,   *)
(* by its own subscribe-presence at the earliest, and the payload is a     *)
(* list of names, never identities.                                        *)
C19_PresenceOnlyToSubscribers ==
  [][\A k \in SentAny(emitted', "presence") :
       /\ status[emitted'[k].to] = "open" =>
            \/ seen[emitted'[k].to].sub
            \/ /\ last'.ev = "subscribe-presence"
               /\ last'.sid = emitted'[k].to
       /\ \A i \in 1..Len(emitted'[k].data) :
            emitted'[k].data[i] \in JoinArgs]_vars

(* A join sent presence to a subscriber and none to the joiner, who is     *)
(* not subscribed.                                                         *)
C19_Witness ==
  /\ last.ev = "join"
  /\ last.sid \in Open
  /\ ~seen[last.sid].sub
  /\ Sent(emitted, last.sid, "presence") = {}
  /\ \E t \in Open : seen[t].sub /\ Sent(emitted, t, "presence") # {}

(* C20: the latest presence a subscribed connection was sent is the list   *)
(* of the names of the sessions joined now, in registry order.             *)
C20_PresenceIsCurrent ==
  \A s \in Open :
    seen[s].sub =>
      seen[s].presence = [i \in 1..Len(clients) |-> clients[i].name]

(* A joined session left and a subscriber was sent the names that remain.  *)
C20_Witness ==
  /\ last.ev = "disconnect"
  /\ last.arg.joined
  /\ Len(clients) >= 1
  /\ \E s \in Open : seen[s].sub /\ Sent(emitted, s, "presence") # {}

----------------------------------------------------------------------------
(* Properties of malformed messages, of who is told what, and of rejoins.  *)

(* C21: a message that lacks a required field is dropped. For a join       *)
(* without a name: no entry without a name ever enters the registry, and   *)
(* the join sends no peer-list, no peer-joined and no presence.            *)
C21_MalformedDropped ==
  /\ \A i \in 1..Len(clients) : clients[i].name \in Names
  /\ (last.ev = "join" /\ last.arg.name = Undefined) =>
       \A k \in 1..Len(emitted) :
         emitted[k].ev \notin {"peer-list", "peer-joined", "presence"}

(* C22: whether and where a signal is forwarded depends on its target      *)
(* alone: it is emitted, once, exactly when the target is the identity of  *)
(* a joined session, to that session, with the data as sent, whatever the  *)
(* shape of the data.                                                      *)
C22_RoutingByTargetOnly ==
  last.ev = "signal" =>
    /\ Joined(clients, last.arg.targetPeerId) <=> Len(emitted) = 1
    /\ ~Joined(clients, last.arg.targetPeerId) <=> emitted = <<>>
    /\ \A k \in 1..Len(emitted) :
         /\ emitted[k].to = SocketOf(clients, last.arg.targetPeerId)
         /\ emitted[k].data.data = last.arg.data

(* A signal whose data is none of offer, answer, candidate was forwarded.  *)
C22_Witness ==
  /\ last.ev = "signal"
  /\ last.arg.data = [foo |-> "bar"]
  /\ Joined(clients, last.arg.targetPeerId)
  /\ Len(emitted) = 1
  /\ emitted[1].data.data = [foo |-> "bar"]

(* C23: peer-joined, peer-left and mute are sent only to sessions that are *)
(* in the roster at the time of the event.                                 *)
C23_NoticesOnlyToJoined ==
  \A k \in 1..Len(emitted) :
    emitted[k].ev \in {"peer-joined", "peer-left", "mute"} =>
      InRoster(clients, emitted[k].to)

(* C24: a mute from a connection that is not joined sends no mute to       *)
(* anyone.                                                                 *)
C24_MuteOnlyFromJoined ==
  (last.ev = "mute" /\ ~InRoster(clients, last.sid)) =>
    SentAny(emitted, "mute") = {}

(* C26: a join of the room client for its stored name, on a connection     *)
(* and with no other session holding that name, leaves the client joined   *)
(* under the name and sends it no join-error; the client sends it from     *)
(* its welcome handler and again from its reconnect handler.               *)
C26_RejoinAfterReconnect ==
  (/\ last.ev = "join"
   /\ last.arg.name \in Names
   /\ \A i \in 1..Len(clients) :
        clients[i].name = last.arg.name => clients[i].sid = last.sid) =>
    /\ InRoster(clients, last.sid)
    /\ NameIn(clients, last.sid) = last.arg.name
    /\ Sent(emitted, last.sid, "join-error") = {}

(* C25: a mute is conveyed only by the mute handler, as it runs, to the    *)
(* sockets connected then; the registry keeps no muted value and welcome,  *)
(* peer-list and peer-joined carry none, so a connection that attaches     *)
(* later is sent nothing that conveys it.                                  *)
C25_MuteNeverReplayed ==
  /\ \A i \in 1..Len(clients) : DOMAIN clients[i] = {"sid", "peerId", "name"}
  /\ \A k \in 1..Len(emitted) :
       /\ emitted[k].ev = "mute" =>
            /\ last.ev = "mute"
            /\ emitted[k].data = [peerId |-> seen[last.sid].identity,
                                  muted |-> last.arg.muted]
            /\ status[emitted[k].to] = "open"
       /\ emitted[k].ev = "welcome" =>
            DOMAIN emitted[k].data = {"peerId", "iceServers", "icePolicy"}
       /\ emitted[k].ev = "peer-joined" =>
            DOMAIN emitted[k].data = {"peerId", "name"}
       /\ emitted[k].ev = "peer-list" =>
            \A i \in 1..Len(emitted[k].data) :
              DOMAIN emitted[k].data[i] = {"peerId", "name"}

(* A connection attached right after a session announced muted: true, and  *)
(* was sent its welcome and nothing else.                                  *)
C25_Witness ==
  /\ last.ev = "connection"
  /\ last.arg.afterMute
  /\ Len(clients) >= 1
  /\ Len(emitted) = 1
  /\ emitted[1].to = last.sid
  /\ emitted[1].ev = "welcome"

----------------------------------------------------------------------------
(* The membership scenario and the clients' view of the roster.            *)

(* C27: in the membership scenario, A's join as Ali sends peer-list [A] to *)
(* A; B's join as Ali sends join-error to B and leaves the registry as it  *)
(* was; B's join as Azzo sends peer-list [A, B] to B and peer-joined(B) to *)
(* A; A's disconnect sends peer-left(A) to B and leaves only B in the      *)
(* roster; and nothing else is sent by these four events.                  *)
C27_MembershipScenario ==
  LET A == [peerId |-> seen[1].identity, name |-> "Ali"]
      B == [peerId |-> seen[2].identity, name |-> "Azzo"]
  IN /\ (scenario = "A joined" /\ last.ev = "join") =>
          /\ emitted = <<Msg(1, "peer-list", <<A>>)>>
          /\ PeerList(clients) = <<A>>
     /\ (scenario = "B refused" /\ last.ev = "join") =>
          /\ emitted = <<Msg(2, "join-error", [message |-> JOIN_ERROR_MESSAGE])>>
          /\ PeerList(clients) = <<A>>
     /\ (scenario = "B joined" /\ last.ev = "join") =>
          /\ emitted = <<Msg(2, "peer-list", <<A, B>>),
                         Msg(1, "peer-joined", B)>>
          /\ PeerList(clients) = <<A, B>>
     /\ (scenario = "A left" /\ last.ev = "disconnect") =>
          /\ emitted = <<Msg(2, "peer-left", [peerId |-> A.peerId])>>
          /\ PeerList(clients) = <<B>>

(* C28: the identities a joined client has in its list, from the peer-list *)
(* of its join and the peer-joined and peer-left sent to it since, in the  *)
(* order sent, are those of the server's roster; and in the emits of a     *)
(* join the peer-list is the first message to the joiner.                  *)
C28_ClientRosterFollows ==
  /\ \A s \in Open :
       InRoster(clients, s) =>
         seen[s].roster = {clients[i].peerId : i \in 1..Len(clients)}
  /\ \A k \in SentAny(emitted, "peer-list") :
       \A j \in 1..(k - 1) : emitted[j].to # emitted[k].to

(* A joined client was told of a later join and then of a leave: a session *)
(* left and a client that stays joined was sent peer-left.                 *)
C28_Witness ==
  /\ last.ev = "disconnect"
  /\ last.arg.joined
  /\ \E s \in Open :
       /\ InRoster(clients, s)
       /\ Sent(emitted, s, "peer-left") # {}
       /\ seen[s].roster = {seen[s].identity}

(* C29: in src/nexus-voice/server/sockets.js a join for a name held by     *)
(* another joined session is refused: the requester is sent no peer-list   *)
(* and does not enter the roster under that name, and no two roster        *)
(* entries carry the same name.                                            *)
C29_PlainUniqueNames ==
  /\ \A i, j \in 1..Len(clients) : i # j => clients[i].name # clients[j].name
  /\ (last.ev = "join" /\ \E i \in 1..Len(clients) :
        clients[i].sid # last.sid /\ clients[i].name = last.arg.name) =>
       Sent(emitted, last.sid, "peer-list") = {}

----------------------------------------------------------------------------
(* The lobby and the room page.                                            *)

----------------------------------------------------------------------------
(* The room clients' offers.                                               *)

(* C31: of two room clients that are both joined exactly one has emitted   *)
(* an offer for the other, the one that joined first (the earlier entry of *)
(* the registry); the two never have both emitted an offer for each other. *)
C31_OneSideOffers ==
  \A i, j \in 1..Len(clients) :
    i < j =>
      /\ <<clients[i].peerId, clients[j].peerId>> \in pages.offers
      /\ <<clients[j].peerId, clients[i].peerId>> \notin pages.offers

----------------------------------------------------------------------------
(* The server of src/unnamed/part_000.                                     *)

(* C32: in part_000 a mute from a joined session is sent once to every     *)
(* connected socket, the sender included; a connection is sent the list of *)
(* {peerId, name} as presence when it attaches, and every connected socket *)
(* is sent it on every accepted join and every leave of a joined session,  *)
(* with no connection ever subscribed.                                     *)
C32_VariantMuteAndPresence ==
  LET pairs == [i \in 1..Len(clients) |->
                  [peerId |-> clients[i].peerId, name |-> clients[i].name]]
      ToAll(ev, data) ==
        \A t \in Open :
          /\ Cardinality(Sent(emitted, t, ev)) = 1
          /\ \A k \in Sent(emitted, t, ev) : emitted[k].data = data
  IN /\ presenceWatchers = {}
     /\ (last.ev = "mute" /\ InRoster(clients, last.sid)) =>
          /\ ToAll("mute", [peerId |-> seen[last.sid].identity,
                            muted |-> last.arg.muted])
          /\ Sent(emitted, last.sid, "mute") # {}
     /\ last.ev = "connection" =>
          /\ Cardinality(Sent(emitted, last.sid, "presence")) = 1
          /\ \A k \in Sent(emitted, last.sid, "presence") :
               emitted[k].data = pairs
     /\ (last.ev = "join" /\ SentAny(emitted, "peer-list") # {}) =>
          ToAll("presence", pairs)
     /\ (last.ev = "disconnect" /\ last.arg.joined) =>
          ToAll("presence", pairs)

(* A joined session announced muted with another connection attached, and  *)
(* the notice came back to the sender as well.                             *)
C32_Witness ==
  /\ last.ev = "mute"
  /\ InRoster(clients, last.sid)
  /\ Cardinality(Open) >= 2
  /\ Len(clients) >= 1
  /\ Sent(emitted, last.sid, "mute") # {}
  /\ \E t \in Open \ {last.sid} : Sent(emitted, t, "mute") # {}

----------------------------------------------------------------------------
(* Joins of a connection that is joined already.                           *)

(* C33: a join from a joined connection for the name it holds is answered  *)
(* with join-error to it and nothing else; clients and peerToSocket stay   *)
(* as they were and the connection stays joined under that name.           *)
C33_OwnNameRefused ==
  [][\A s \in Sockets, n \in JoinArgs :
       (JoinStep(s, n) /\ InRoster(clients, s) /\ NameIn(clients, s) = n) =>
         /\ emitted' = <<Msg(s, "join-error", [message |-> JOIN_ERROR_MESSAGE])>>
         /\ clients' = clients
         /\ peerToSocket' = peerToSocket
         /\ status'[s] = "open"
         /\ InRoster(clients', s)
         /\ NameIn(clients', s) = n]_vars

(* A joined connection asked again for its own name, with another session  *)
(* joined, and was refused.                                                *)
C33_Witness ==
  /\ last.ev = "join"
  /\ last.arg.rejoin
  /\ InRoster(clients, last.sid)
  /\ NameIn(clients, last.sid) = last.arg.name
  /\ Len(clients) >= 2
  /\ emitted = <<Msg(last.sid, "join-error", [message |-> JOIN_ERROR_MESSAGE])>>

(* C34: a join from a joined connection for another name that nobody holds *)
(* renames its session in place: the registry keeps its length and order,  *)
(* the connection has one entry, with the identity it had and the new      *)
(* name, and its identity still resolves to it; nobody holds the previous  *)
(* name; it is sent the peer-list; every other joined session is sent one  *)
(* peer-joined with that identity and the new name, while that identity is *)
(* in the roster it knows (it was sent no peer-left for it, and is sent    *)
(* none now), and its roster stays as it was.                              *)
C34_RenameInPlace ==
  [][\A s \in Sockets, n \in JoinArgs :
       (/\ JoinStep(s, n)
        /\ InRoster(clients, s)
        /\ NameIn(clients, s) # n
        /\ ~Held(clients, n)) =>
         LET i == CHOOSE k \in 1..Len(clients) : clients[k].sid = s
             id == clients[i].peerId
         IN /\ Len(clients') = Len(clients)
            /\ \A k \in 1..Len(clients) :
                 clients'[k] = IF k = i
                               THEN [sid |-> s, peerId |-> id, name |-> n]
                               ELSE clients[k]
            /\ Cardinality({k \in 1..Len(clients') : clients'[k].sid = s}) = 1
            /\ peerToSocket' = peerToSocket
            /\ peerToSocket'[id] = s
            /\ ~Held(clients', clients[i].name)
            /\ Sent(emitted', s, "join-error") = {}
            /\ Cardinality(Sent(emitted', s, "peer-list")) = 1
            /\ SentAny(emitted', "peer-left") = {}
            /\ \A t \in Sockets \ {s} :
                 InRoster(clients, t) =>
                   /\ Cardinality(Sent(emitted', t, "peer-joined")) = 1
                   /\ \A k \in Sent(emitted', t, "peer-joined") :
                        emitted'[k].data = [peerId |-> id, name |-> n]
                   /\ id \in seen[t].roster
                   /\ seen'[t].roster = seen[t].roster]_vars

(* A joined connection took another name while another session was joined, *)
(* and that session was sent peer-joined for an identity it had listed.    *)
C34_Witness ==
  /\ last.ev = "join"
  /\ last.arg.rejoin
  /\ Sent(emitted, last.sid, "peer-list") # {}
  /\ Len(clients) >= 2
  /\ \E t \in Open \ {last.sid} :
       /\ InRoster(clients, t)
       /\ Sent(emitted, t, "peer-joined") # {}
       /\ seen[last.sid].identity \in seen[t].roster

----------------------------------------------------------------------------
(* The relay and the leave notice.                                         *)

(* C35: the relay looks at the target only. A signal from a connection     *)
(* that is not joined, for the identity of a joined session, is emitted to *)
(* that session with from set to the sender's identity, which no roster    *)
(* entry carries; a signal of a joined session for its own identity is     *)
(* emitted to the sender itself.                                           *)
C35_RelayChecksTargetOnly ==
  LET signal == [from |-> seen[last.sid].identity, data |-> last.arg.data]
  IN last.ev = "signal" =>
       /\ (~InRoster(clients, last.sid)
             /\ Joined(clients, last.arg.targetPeerId)) =>
            /\ emitted = <<Msg(SocketOf(clients, last.arg.targetPeerId),
                               "signal", signal)>>
            /\ ~Joined(clients, signal.from)
            /\ emitted[1].to # last.sid
       /\ (InRoster(clients, last.sid)
             /\ last.arg.targetPeerId = seen[last.sid].identity) =>
            emitted = <<Msg(last.sid, "signal", signal)>>

(* A connection that has not joined signalled a joined session and the     *)
(* signal was delivered.                                                   *)
C35_Witness ==
  /\ last.ev = "signal"
  /\ ~InRoster(clients, last.sid)
  /\ last.sid \notin accepted
  /\ Joined(clients, last.arg.targetPeerId)
  /\ Len(emitted) = 1
  /\ emitted[1].ev = "signal"
  /\ emitted[1].data.from = seen[last.sid].identity

(* The connection that was welcomed with the identity p is attached.       *)
Attached(st, p) == \E s \in Sockets : seen[s].identity = p /\ st[s] = "open"

(* C36: no signal with from = X follows a peer-left for X. The only        *)
(* handler that emits peer-left for X is the disconnect of X's connection, *)
(* which emits no signal; that connection is closed from then on and what  *)
(* it had sent is never handled; and every signal emitted has the identity *)
(* of an attached connection as from, as has every peer-joined and mute,   *)
(* and every entry of a peer-list.                                         *)
C36_NoSignalAfterLeave ==
  [][/\ \A s \in Sockets :
          status[s] = "closed" =>
            status'[s] = "closed" /\ relay'.wire[s] = <<>>
     /\ \A k \in 1..Len(emitted') :
          /\ emitted'[k].ev = "peer-left" =>
               /\ last'.ev = "disconnect"
               /\ emitted'[k].data.peerId = seen[last'.sid].identity
               /\ status'[last'.sid] = "closed"
               /\ relay'.wire[last'.sid] = <<>>
               /\ SentAny(emitted', "signal") = {}
          /\ emitted'[k].ev = "signal" =>
               Attached(status', emitted'[k].data.from)
          /\ emitted'[k].ev \in {"peer-joined", "mute"} =>
               Attached(status', emitted'[k].data.peerId)
          /\ emitted'[k].ev = "peer-list" =>
               \A i \in 1..Len(emitted'[k].data) :
                 Attached(status', emitted'[k].data[i].peerId)]_vars

(* A session whose signal had been delivered to another session left, and  *)
(* that session was sent the peer-left.                                    *)
C36_Witness ==
  /\ last.ev = "disconnect"
  /\ last.arg.joined
  /\ \E t \in Open :
       /\ Sent(emitted, t, "peer-left") # {}
       /\ \E i \in 1..Len(relay.delivered[t]) :
            relay.delivered[t][i].from = seen[last.sid].identity

----------------------------------------------------------------------------
(* Who changes the registry, and the set of presence watchers.             *)

(* C37: the handling of signal, mute, subscribe-presence and               *)
(* unsubscribe-presence leaves clients and peerToSocket as they were; a    *)
(* step that changes either of them is an accepted join (the joiner is     *)
(* sent peer-list) or the disconnect of a joined session.                  *)
C37_OnlyJoinAndLeaveChangeRoster ==
  [][/\ last'.ev \in {"signal", "mute", "subscribe-presence",
                      "unsubscribe-presence"} =>
          clients' = clients /\ peerToSocket' = peerToSocket
     /\ (clients' # clients \/ peerToSocket' # peerToSocket) =>
          \/ /\ last'.ev = "join"
             /\ Sent(emitted', last'.sid, "peer-list") # {}
             /\ Sent(emitted', last'.sid, "join-error") = {}
          \/ /\ last'.ev = "disconnect"
             /\ InRoster(clients, last'.sid)]_vars

(* A joined session, one of two, unsubscribed from presence, and the       *)
(* registry holds both sessions as before.                                 *)
C37_Witness ==
  /\ last.ev = "unsubscribe-presence"
  /\ InRoster(clients, last.sid)
  /\ Len(clients) = 2
  /\ DOMAIN peerToSocket = {clients[1].peerId, clients[2].peerId}
  /\ emitted = <<>>

(* C38: between handlers presenceWatchers holds attached connections only: *)
(* a connection is out of it after its unsubscribe-presence and after its  *)
(* disconnect, and in it after its subscribe-presence (once: it is sent    *)
(* one presence per accepted join and per leave of a joined session, as is *)
(* every subscriber); and no presence is emitted to a connection that is   *)
(* not attached when the handler runs.                                     *)
C38_WatchersAreLive ==
  /\ presenceWatchers \subseteq Open
  /\ last.ev \in {"unsubscribe-presence", "disconnect"} =>
       last.sid \notin presenceWatchers
  /\ last.ev = "subscribe-presence" =>
       /\ last.sid \in presenceWatchers
       /\ Cardinality(Sent(emitted, last.sid, "presence")) = 1
  /\ ((last.ev = "join" /\ SentAny(emitted, "peer-list") # {})
        \/ (last.ev = "disconnect" /\ last.arg.joined)) =>
       \A t \in presenceWatchers :
         Cardinality(Sent(emitted, t, "presence")) = 1
  /\ \A k \in SentAny(emitted, "presence") :
       status[emitted[k].to] = "open"

====
